---- MODULE Spec2Model ----
(***************************************************************************)
(* DARKNEXT crawl pipeline: the sequential Tor crawler (tor_crawler.py),   *)
(* onion URL validation (utils.py) and the monitoring loop (main.py).      *)
(*                                                                         *)
(* Strings are sequences of one-character strings; a URL is the record    *)
(* urlparse() yields for it: scheme, netloc and path.                      *)
(***************************************************************************)
EXTENDS Integers, Sequences, FiniteSets, TLC

VARIABLES
    max_pages,        \* config['crawler']['max_pages_per_site']
    web,              \* the URLs pages of the modelled web link to
    base_url,         \* crawl_site: the seed
    urls_to_visit,    \* crawl_site: pending queue (a list)
    visited_urls,     \* crawl_site: visited set
    results,          \* crawl_site: collected page_data
    pc,               \* position of the program's control
    requests,         \* history: URLs handed to session.get in this run, in order
    enqueued,         \* history: URLs put on urls_to_visit in this traversal
    failed,           \* history: URLs whose crawl_page returned None in this traversal
    limiter,          \* RateLimiter.requests
    consultations,    \* history: number of RateLimiter.can_make_request calls
    max_requests,     \* RateLimiter.max_requests
    time_window,      \* RateLimiter.time_window
    now,              \* time.time(), in whole seconds
    admitted,         \* history: the timestamps make_request recorded, and by which task
    task_pc,          \* per fetch task: where it is inside make_request
    file,             \* the seed-list file: its lines, or Unreadable
    urls,             \* crawl_urls_from_file: the lines kept
    url_idx,          \* crawl_urls_from_file: position of "for url in urls"
    all_results,      \* crawl_urls_from_file: all_results
    running,          \* DarkNext.running
    scan_count,       \* run_continuous_monitoring: scan_count
    ticks,            \* run_continuous_monitoring: seconds slept in this wait
    in_url,           \* validate_onion_url: its argument
    verdict,          \* validate_onion_url: its return value, once called
    min_length,       \* config['content']['min_content_length']
    max_length,       \* config['content']['max_content_length']
    page_url,         \* crawl_page / crawl_page_async: the url argument
    page_resp,        \* what session.get yields for page_url
    page_sync,        \* crawl_page: its return value, once called
    page_async,       \* crawl_page_async: its return value, once called
    batch,            \* crawl_urls_async: the urls argument
    conn_limit,       \* config['crawler']['max_concurrent_requests']
    a_pc,             \* per task of crawl_urls_async: where crawl_page_async is
    a_out,            \* per task: the value gather() holds for it
    a_failed,         \* history: per task, whether its fetch failed
    in_flight,        \* tasks holding a connection of the TCPConnector
    valid_results,    \* crawl_urls_async: valid_results
    scan_idx,         \* run_single_scan: position of "for page_data in crawl_results"
    saved,            \* the findings save_finding stored, by URL
    alerts,           \* the findings send_alert delivered, by URL
    findings,         \* history: the parsed results passed to save_finding
    alerts_enabled,   \* config['alerts']['enabled']
    scan_ret,         \* run_single_scan: its return value, once returned
    page_content,     \* parse_content: page_data['content']
    keywords,         \* ContentParser.keywords
    scanned,          \* _find_keyword_matches: the keywords the loop has done
    keyword_matches,  \* _find_keyword_matches: matches
    found,            \* per entity kind: what findall of its pattern(s) yields
    extract_entities, \* config['content']['extract_entities']
    entities,         \* parse_content: result['entities']
    has_matches,      \* parse_content: result['has_matches']
    call_arg,         \* the argument of the helper function being called
    call_ret          \* what that call returned, once it has

siteVars == <<base_url, urls_to_visit, visited_urls, results, enqueued, failed>>

fileVars == <<file, urls, url_idx, all_results>>

monitorVars == <<running, scan_count, ticks>>

validateVars == <<in_url, verdict>>

limiterVars == <<limiter, consultations, max_requests, time_window, now,
                 admitted, task_pc>>

configVars == <<min_length, max_length>>

pageVars == <<page_url, page_resp, page_sync, page_async>>

asyncVars == <<batch, conn_limit, a_pc, a_out, a_failed, in_flight, valid_results>>

scanVars == <<scan_idx, saved, alerts, scan_ret, findings, alerts_enabled>>

kwVars == <<page_content, keywords, scanned, keyword_matches>>

parseVars == <<found, extract_entities, entities, has_matches>>

callVars == <<call_arg, call_ret>>

tailVars == <<scanVars, kwVars, parseVars, callVars>>

extVars == <<configVars, pageVars, asyncVars, tailVars>>

vars == <<max_pages, web, pc, requests, siteVars, fileVars, monitorVars,
          validateVars, limiterVars, extVars>>

-----------------------------------------------------------------------------
(* Bounds of the model *)

MaxLinks == 2          \* anchors on one page
NumTasks == 2          \* fetch tasks sharing one RateLimiter
MaxTime == 2           \* seconds the clock is followed
MaxCalls == 4          \* calls of can_make_request followed
MaxRuns == 3           \* runs of like characters in one response body

(* Program constants *)

min_content_length == 100

(* Default of config['content']['max_content_length'] *)
max_content_length == 1048576
V2Len == 16
V3Len == 56

-----------------------------------------------------------------------------
(* Strings *)

Rep(c, n) == [i \in 1..n |-> c]

InSeq(x, s) == \E i \in 1..Len(s) : s[i] = x

EndsWith(s, suf) ==
    /\ Len(s) >= Len(suf)
    /\ SubSeq(s, Len(s) - Len(suf) + 1, Len(s)) = suf

DotOnion == <<".", "o", "n", "i", "o", "n">>

SeqsUpTo(S, n) == UNION {[1..k -> S] : k \in 0..n}

Range(xs) == {xs[i] : i \in 1..Len(xs)}

-----------------------------------------------------------------------------
(* URLs of the modelled web *)

Url(scheme, netloc, path) == [scheme |-> scheme, netloc |-> netloc, path |-> path]

HostA == Rep("a", V2Len) \o DotOnion           \* well-formed v2 onion host
HostB == Rep("b", V2Len) \o DotOnion           \* another onion host
HostShort == <<"x">> \o DotOnion               \* .onion suffix, 1-character body
HostClear == <<"c", ".", "c", "o", "m">>       \* clearnet host

A0 == Url("http", HostA, "/")
A1 == Url("http", HostA, "/1")
A2 == Url("https", HostA, "/2")
B0 == Url("http", HostB, "/")
F0 == Url("ftp", HostA, "/")
S0 == Url("http", HostShort, "/")
S1 == Url("http", HostShort, "/1")
C0 == Url("http", HostClear, "/")

-----------------------------------------------------------------------------
(* TorCrawler helpers *)

is_valid_onion_url(url) ==
    /\ url.scheme \in {"http", "https"}
    /\ EndsWith(url.netloc, DotOnion)

same_domain_any(url1, url2) == TRUE

same_domain(url1, url2) == url1.netloc = url2.netloc

-----------------------------------------------------------------------------
(* The web: what a request can come back with *)

Failures == {"timeout", "conn_error", "error"}

(* A response body is a sequence of runs of like characters: "t" an ASCII
   character of text, "w" a character of text that takes two bytes on the
   wire, "m" a character of markup (tags), " " the separator get_text puts
   between two pieces of text. *)
Run(unit, n) == [unit |-> unit, n |-> n]

Width(unit) == IF unit = "w" THEN 2 ELSE 1

IsText(run) == run.unit # "m"

(* len(response.text) *)
RECURSIVE Chars(_)
Chars(body) ==
    IF body = <<>> THEN 0 ELSE Head(body).n + Chars(Tail(body))

(* len(response.content) *)
RECURSIVE Bytes(_)
Bytes(body) ==
    IF body = <<>> THEN 0
    ELSE Head(body).n * Width(Head(body).unit) + Bytes(Tail(body))

(* content[:k] *)
RECURSIVE Take(_, _)
Take(body, k) ==
    IF body = <<>> \/ k <= 0 THEN <<>>
    ELSE IF Head(body).n <= k
         THEN <<Head(body)>> \o Take(Tail(body), k - Head(body).n)
         ELSE <<Run(Head(body).unit, k)>>

(* response.text[:max_length] *)
Slice_Whole(text, k) == text

Slice(text, k) == Take(text, k)

(* soup.get_text(separator=' ', strip=True): the pieces of text between the
   tags, joined by one space. prev tells what precedes: "none", "text", or
   "gap" (markup after some text). *)
RECURSIVE JoinText(_, _)
JoinText(body, prev) ==
    IF body = <<>> THEN <<>>
    ELSE IF ~IsText(Head(body))
         THEN JoinText(Tail(body), IF prev = "none" THEN "none" ELSE "gap")
         ELSE (IF prev = "gap" THEN <<Run(" ", 1)>> ELSE <<>>)
              \o <<Head(body)>> \o JoinText(Tail(body), "text")

get_text(content) == JoinText(content, "none")

(* A request ends in an exception (no response) or in a response with a
   status, a body and the anchors found in the parsed markup. *)
Responses ==
    [kind : Failures, status : {0}, body : {<<>>}, anchors : {<<>>}]
    \cup [kind : {"response"}, status : {404},
          body : {<<Run("t", min_content_length)>>}, anchors : {<<>>}]
    \cup [kind : {"response"}, status : {200},
          body : {<<Run("t", min_content_length - 1)>>}, anchors : {<<>>}]
    \cup [kind : {"response"}, status : {200},
          body : {<<Run("t", min_content_length)>>},
          anchors : SeqsUpTo(web, MaxLinks)]

None == [ok |-> FALSE]

TooShort_Never(text_content) == FALSE

TooShort(text_content) == Chars(text_content) < min_length

(* TorCrawler.crawl_page: the value returned for url when the request comes
   back as resp. anchors are the hrefs of the page after urljoin. *)
crawl_page(url, resp) ==
    IF resp.kind # "response" THEN None
    ELSE IF resp.status # 200 THEN None
    ELSE LET content == IF Bytes(resp.body) > max_length
                        THEN Slice(resp.body, max_length)
                        ELSE resp.body
             text_content == get_text(content)
         IN IF TooShort(text_content) THEN None
            ELSE [ok |-> TRUE,
                  url |-> url,
                  status_code |-> resp.status,
                  content |-> text_content,
                  raw_html |-> content,
                  links |-> SelectSeq(resp.anchors, is_valid_onion_url),
                  content_length |-> Chars(content)]

(* AsyncTorCrawler.crawl_page_async *)
crawl_page_async(url, resp) ==
    IF resp.kind # "response" THEN None
    ELSE IF resp.status # 200 THEN None
    ELSE LET content == IF Chars(resp.body) > max_length
                        THEN Slice(resp.body, max_length)
                        ELSE resp.body
             text_content == get_text(content)
         IN IF TooShort(text_content) THEN None
            ELSE [ok |-> TRUE,
                  url |-> url,
                  status_code |-> resp.status,
                  content |-> text_content,
                  raw_html |-> content,
                  content_length |-> Chars(content)]

-----------------------------------------------------------------------------
(* TorCrawler.crawl_site *)

(* while urls_to_visit and len(results) < max_pages *)
LoopCond_NoCap(queue, res, cap) == queue # <<>>

LoopCond_Inclusive(queue, res, cap) == queue # <<>> /\ Len(res) <= cap

LoopCond(queue, res, cap) == queue # <<>> /\ Len(res) < cap

ShouldEnqueue_Revisit(link, visited, queue, base) ==
    /\ ~InSeq(link, queue)
    /\ same_domain(base, link)

ShouldEnqueue(link, visited, queue, base) ==
    /\ link \notin visited
    /\ ~InSeq(link, queue)
    /\ same_domain(base, link)

(* for link in page_data.get('links', []): ... urls_to_visit.append(link) *)
RECURSIVE AddLinks(_, _, _, _)
AddLinks(queue, links, visited, base) ==
    IF links = <<>> THEN queue
    ELSE AddLinks(IF ShouldEnqueue(Head(links), visited, queue, base)
                  THEN Append(queue, Head(links))
                  ELSE queue,
                  Tail(links), visited, base)

(* url = urls_to_visit.pop(0): the URL taken and the list left *)
Pop_Last(queue) ==
    [url |-> queue[Len(queue)], rest |-> SubSeq(queue, 1, Len(queue) - 1)]

Pop_Keep(queue) == [url |-> Head(queue), rest |-> queue]

Pop(queue) == [url |-> Head(queue), rest |-> Tail(queue)]

(* The queue after the page of url has been handled: links are appended
   only under "if page_data:". *)
NextQueue_Retry(url, rest, page_data, visited, base) ==
    IF page_data.ok
    THEN AddLinks(rest, page_data.links, visited, base)
    ELSE Append(rest, url)

NextQueue(url, rest, page_data, visited, base) ==
    IF page_data.ok
    THEN AddLinks(rest, page_data.links, visited, base)
    ELSE rest

(* Where control goes after crawl_page returned: crawl_page catches every
   Exception and returns None, so the loop goes on in either case. *)
AfterPage_Abort(page_data) == IF page_data.ok THEN "crawl_site" ELSE "site_done"

AfterPage(page_data) == "crawl_site"

(* One iteration of the while loop, lines 148-164. *)
CrawlSiteIter ==
    /\ pc = "crawl_site"
    /\ LoopCond(urls_to_visit, results, max_pages)
    /\ LET url == Pop(urls_to_visit).url
           rest == Pop(urls_to_visit).rest
       IN IF url \in visited_urls
          THEN /\ urls_to_visit' = rest
               /\ UNCHANGED <<visited_urls, results, requests, enqueued, failed, pc>>
          ELSE \E resp \in Responses :
               LET page_data == crawl_page(url, resp)
                   visited == visited_urls \cup {url}
                   queue == NextQueue(url, rest, page_data, visited, base_url)
               IN /\ visited_urls' = visited
                  /\ requests' = Append(requests, url)
                  /\ results' = IF page_data.ok THEN Append(results, page_data)
                                ELSE results
                  /\ failed' = IF page_data.ok THEN failed ELSE failed \cup {url}
                  /\ urls_to_visit' = queue
                  /\ enqueued' = enqueued \o SubSeq(queue, Len(rest) + 1, Len(queue))
                  /\ pc' = AfterPage(page_data)
    /\ UNCHANGED <<max_pages, web, base_url, fileVars, monitorVars, validateVars, extVars,
                   limiterVars>>

(* The loop condition fails: lines 166-167. *)
CrawlSiteExit ==
    /\ pc = "crawl_site"
    /\ ~LoopCond(urls_to_visit, results, max_pages)
    /\ pc' = "site_done"
    /\ UNCHANGED <<max_pages, web, requests, siteVars, fileVars, monitorVars,
                   validateVars, extVars, limiterVars>>

-----------------------------------------------------------------------------
(* Values the other components hold while one component is exercised *)

NoUrl == Url("", <<>>, "")

(* A line of the seed file is a sequence of tokens: a blank, a '#', or the
   characters of one URL *)
Tok(ch, url) == [ch |-> ch, url |-> url]

Unreadable == <<<<Tok("unreadable", NoUrl)>>>>

FileIdle ==
    /\ file = <<>>
    /\ urls = <<>>
    /\ url_idx = 1
    /\ all_results = <<>>

MonitorIdle ==
    /\ running = FALSE
    /\ scan_count = 0
    /\ ticks = 0

ValidateIdle ==
    /\ in_url = NoUrl
    /\ verdict = "pending"

ConfigDefault ==
    /\ min_length = min_content_length
    /\ max_length = max_content_length

PageIdle ==
    /\ page_url = NoUrl
    /\ page_resp = [kind |-> "error", status |-> 0, body |-> <<>>, anchors |-> <<>>]
    /\ page_sync = None
    /\ page_async = None

AsyncIdle ==
    /\ batch = <<>>
    /\ conn_limit = 0
    /\ a_pc = <<>>
    /\ a_out = <<>>
    /\ a_failed = <<>>
    /\ in_flight = {}
    /\ valid_results = <<>>

ScanIdle ==
    /\ scan_idx = 1
    /\ saved = <<>>
    /\ alerts = <<>>
    /\ scan_ret = "pending"
    /\ findings = <<>>
    /\ alerts_enabled = TRUE

KwIdle ==
    /\ page_content = <<>>
    /\ keywords = {}
    /\ scanned = {}
    /\ keyword_matches = <<>>

Kinds ==
    {"emails", "bitcoin_addresses", "ethereum_addresses", "monero_addresses",
     "phone_numbers", "credit_cards", "ip_addresses", "urls", "ssh_keys",
     "pgp_keys", "api_keys"}

EmptyMap == [k \in {} |-> <<>>]

ParseIdle ==
    /\ found = [k \in Kinds |-> <<>>]
    /\ extract_entities = TRUE
    /\ entities = EmptyMap
    /\ has_matches = FALSE

CallIdle ==
    /\ call_arg = <<>>
    /\ call_ret = <<>>

TailIdle ==
    /\ ScanIdle
    /\ KwIdle
    /\ ParseIdle
    /\ CallIdle

ExtIdle ==
    /\ ConfigDefault
    /\ PageIdle
    /\ AsyncIdle
    /\ TailIdle

Tasks == 1..NumTasks

LimiterInit ==
    /\ limiter = <<>>
    /\ consultations = 0
    /\ max_requests = 0
    /\ time_window = 0
    /\ now = 0
    /\ admitted = <<>>
    /\ task_pc = [t \in Tasks |-> "idle"]

SiteIdle ==
    /\ base_url = NoUrl
    /\ urls_to_visit = <<>>
    /\ visited_urls = {}
    /\ results = <<>>
    /\ enqueued = <<>>
    /\ failed = {}

-----------------------------------------------------------------------------
(* Spec: one call of crawl_site *)

(* Values of max_pages_per_site and seeds tried *)
PageCaps == {0, 1, 2}

Seeds == {A0, A1, S0}

AnchorPool == {A0, A1, A2, B0, F0}

Init ==
    /\ max_pages \in PageCaps
    /\ web = AnchorPool
    /\ base_url \in Seeds
    /\ urls_to_visit = <<base_url>>
    /\ visited_urls = {}
    /\ results = <<>>
    /\ pc = "crawl_site"
    /\ requests = <<>>
    /\ enqueued = <<base_url>>
    /\ failed = {}
    /\ LimiterInit
    /\ FileIdle
    /\ MonitorIdle
    /\ ValidateIdle
    /\ ExtIdle

Next == CrawlSiteIter \/ CrawlSiteExit

Spec == Init /\ [][Next]_vars

FairSpec == Spec /\ WF_vars(Next)

-----------------------------------------------------------------------------
(* Properties of crawl_site *)

NoDuplicates(s) == \A i, j \in 1..Len(s) : i # j => s[i] # s[j]

ResultUrls == [i \in 1..Len(results) |-> results[i].url]

NotFailed(u) == u \notin failed

(* The links crawl_site appended in a step *)
Appended == SubSeq(urls_to_visit', Len(urls_to_visit), Len(urls_to_visit'))

(* C27: at every loop boundary of crawl_site the pending queue and the
   visited set are disjoint, so the URL taken from the queue has never been
   visited and the "if url in visited_urls: continue" branch is not taken. *)
C27_QueueDisjointFromVisited ==
    \A i \in 1..Len(urls_to_visit) : urls_to_visit[i] \notin visited_urls

(* A collected page links back to a visited URL while other links wait. *)
C27_Witness ==
    /\ pc = "crawl_site"
    /\ urls_to_visit # <<>>
    /\ \E i \in 1..Len(results) :
          \E j \in 1..Len(results[i].links) :
              /\ results[i].links[j] \in visited_urls
              /\ same_domain(base_url, results[i].links[j])

(* C28: at every loop boundary the number of fetch attempts equals the size
   of the visited set and equals the pages collected plus the failed fetches;
   with a cap of 0 nothing is fetched, and with a positive cap the attempts
   exceed the cap by no more than the number of failed fetches. *)
C28_AttemptsAccounted ==
    /\ Len(requests) = Cardinality(visited_urls)
    /\ Len(requests) = Len(results) + Cardinality(failed)
    /\ max_pages = 0 => requests = <<>>
    /\ max_pages > 0 => Len(requests) <= max_pages + Cardinality(failed)

(* The traversal ended with more attempts than the cap, one of them failed. *)
C28_Witness ==
    /\ pc = "site_done"
    /\ max_pages > 0
    /\ Len(requests) > max_pages
    /\ failed # {}

(* C1: within one traversal no URL is requested twice, and the number of
   collected pages never exceeds max_pages_per_site. *)
C1_NoRepeatWithinCap ==
    /\ NoDuplicates(requests)
    /\ Len(results) <= max_pages

(* The cap is reached on a site whose second page links back to the seed. *)
C1_Witness ==
    /\ max_pages = 2
    /\ Len(results) = max_pages
    /\ InSeq(base_url, results[2].links)
    /\ InSeq(results[2].url, results[1].links)

(* C2: every traversal terminates, and at termination the queue is empty or
   page_count equals max_pages_per_site. *)
C2_Terminates ==
    /\ <>(pc = "site_done")
    /\ [](pc = "site_done" =>
            urls_to_visit = <<>> \/ Len(results) = max_pages)

(* Termination by the cap with URLs still pending. *)
C2_Witness ==
    /\ pc = "site_done"
    /\ urls_to_visit # <<>>
    /\ max_pages > 0
    /\ Len(results) = max_pages

(* C3: URLs are requested in the order they were enqueued, and results are
   in request order. *)
C3_Fifo ==
    /\ Len(requests) <= Len(enqueued)
    /\ \A i \in 1..Len(requests) : requests[i] = enqueued[i]
    /\ ResultUrls = SelectSeq(requests, NotFailed)

(* Three requests, two of them links of the seed's page. *)
C3_Witness ==
    /\ Len(requests) = 3
    /\ Len(results) = 2
    /\ Len(results[1].links) = 2
    /\ requests[2] = results[1].links[1]
    /\ requests[3] = results[1].links[2]

(* C4: pending URLs other than the seed share the seed's netloc, the queue
   holds no URL twice, and no visited or queued link is appended. *)
C4_QueueScoped ==
    /\ [](/\ \A i \in 1..Len(urls_to_visit) :
               urls_to_visit[i] # base_url =>
                   urls_to_visit[i].netloc = base_url.netloc
          /\ NoDuplicates(urls_to_visit))
    /\ [][requests' # requests =>
            \A k \in 1..Len(Appended) :
                /\ Appended[k] \notin visited_urls'
                /\ ~InSeq(Appended[k], Tail(urls_to_visit))]_vars

(* A page offered an off-site onion link and a link to a visited page, and a
   same-site link was enqueued. *)
C4_Witness ==
    /\ Len(results) = 2
    /\ InSeq(B0, results[1].links)
    /\ InSeq(base_url, results[2].links)
    /\ urls_to_visit # <<>>

(* C5: a failed fetch leaves the URL in visited, adds no page, enqueues no
   link, and the URL is not requested again. *)
C5_FailureDropsPage ==
    /\ [](/\ failed \subseteq visited_urls
          /\ \A i \in 1..Len(results) : results[i].url \notin failed
          /\ \A u \in failed : Cardinality({i \in 1..Len(requests) : requests[i] = u}) = 1)
    /\ [][failed' # failed =>
            /\ Len(results') = Len(results)
            /\ urls_to_visit' = Tail(urls_to_visit)
            /\ failed' \subseteq visited_urls']_vars

(* A failed page was linked again by a later page. *)
C5_Witness ==
    /\ Len(requests) = 3
    /\ requests[2] \in failed
    /\ Len(results) = 2
    /\ InSeq(requests[2], results[2].links)

(* C6: after a failed fetch every pending URL is still requested, unless
   the page cap is reached first. *)
C6_FailureDoesNotAbort ==
    \A u \in AnchorPool \cup Seeds :
        (failed # {} /\ InSeq(u, urls_to_visit))
            ~> (InSeq(u, requests) \/ Len(results) >= max_pages)

(* A URL that was pending when another fetch failed has been requested. *)
C6_Witness ==
    /\ Len(requests) = 3
    /\ requests[2] \in failed
    /\ Len(results[1].links) = 2
    /\ requests[3] = results[1].links[2]

-----------------------------------------------------------------------------
(* utils.validate_onion_url *)

StartsWith(s, pre) == Len(s) >= Len(pre) /\ SubSeq(s, 1, Len(pre)) = pre

(* str.replace(old, ''): every non-overlapping occurrence, left to right *)
RECURSIVE Remove(_, _)
Remove(s, old) ==
    IF s = <<>> THEN <<>>
    ELSE IF StartsWith(s, old) THEN Remove(SubSeq(s, Len(old) + 1, Len(s)), old)
    ELSE <<Head(s)>> \o Remove(Tail(s), old)

Lower == <<"a", "b", "c", "o", "n", "i", "x">>

UpperOf == <<"A", "B", "C", "O", "N", "I", "X">>

(* str.upper() on one character *)
UpperChar(c) ==
    IF \E k \in 1..Len(Lower) : Lower[k] = c
    THEN UpperOf[CHOOSE k \in 1..Len(Lower) : Lower[k] = c]
    ELSE c

Upper(s) == [i \in 1..Len(s) |-> UpperChar(s[i])]

B32Alphabet ==
    {"A", "B", "C", "D", "E", "F", "G", "H", "I", "J", "K", "L", "M", "N", "O",
     "P", "Q", "R", "S", "T", "U", "V", "W", "X", "Y", "Z",
     "2", "3", "4", "5", "6", "7"}

Padding == Rep("=", 6)

RECURSIVE RStrip(_, _)
RStrip(s, c) ==
    IF s # <<>> /\ s[Len(s)] = c THEN RStrip(SubSeq(s, 1, Len(s) - 1), c) ELSE s

(* base64.b32decode(s) returns instead of raising binascii.Error: the length
   is a multiple of 8, what is left of the trailing '=' is in the alphabet,
   and the number of '=' is one a base32 encoder produces. *)
B32DecodeOk(s) ==
    LET body == RStrip(s, "=")
        padchars == Len(s) - Len(body)
    IN /\ Len(s) % 8 = 0
       /\ \A i \in 1..Len(body) : body[i] \in B32Alphabet
       /\ padchars \in {0, 1, 3, 4, 6}

validate_onion_url(url) ==
    IF url.scheme \notin {"http", "https"} THEN FALSE
    ELSE IF ~EndsWith(url.netloc, DotOnion) THEN FALSE
    ELSE LET domain == Remove(url.netloc, DotOnion)
         IN IF Len(domain) \notin {V2Len, V3Len} THEN FALSE
            ELSE B32DecodeOk(Upper(domain) \o Padding)

-----------------------------------------------------------------------------
(* SpecValidate: validate_onion_url applied to one URL *)

(* Bodies: n characters "a", the k-th (if any) replaced by c *)
Body(n, k, c) == [i \in 1..n |-> IF i = k THEN c ELSE "a"]

BodyLens ==
    {0, 2, 10, V2Len - 1, V2Len, V2Len + 1, V3Len - 1, V3Len, V3Len + 1}

Bodies == {Body(n, k, c) : n \in BodyLens, k \in {0, 1, 2, V2Len}, c \in {"7", "1", "-"}}

Suffixes == {DotOnion, <<".", "c", "o", "m">>, <<"o", "n", "i", "o", "n">>}

ValidateInputs ==
    {Url(sch, b \o suf, "/") : sch \in {"http", "https", "ftp"},
                               b \in Bodies, suf \in Suffixes}

InitValidate ==
    /\ in_url \in ValidateInputs
    /\ verdict = "pending"
    /\ max_pages = 0
    /\ web = {}
    /\ pc = "validate"
    /\ requests = <<>>
    /\ SiteIdle
    /\ FileIdle
    /\ MonitorIdle
    /\ LimiterInit
    /\ ExtIdle

Validate ==
    /\ pc = "validate"
    /\ verdict' = IF validate_onion_url(in_url) THEN "True" ELSE "False"
    /\ pc' = "validated"
    /\ UNCHANGED <<max_pages, web, requests, siteVars, fileVars, monitorVars,
                   limiterVars, in_url, extVars>>

NextValidate == Validate

SpecValidate == InitValidate /\ [][NextValidate]_vars

(* The address format the validator is documented to accept: scheme http or
   https, host = base32 body of 16 or 56 characters + ".onion". *)
IsBase32Char(c) == UpperChar(c) \in B32Alphabet

OnionAddressValid(url) ==
    /\ url.scheme \in {"http", "https"}
    /\ EndsWith(url.netloc, DotOnion)
    /\ LET body == SubSeq(url.netloc, 1, Len(url.netloc) - Len(DotOnion))
       IN /\ Len(body) \in {V2Len, V3Len}
          /\ \A i \in 1..Len(body) : IsBase32Char(body[i])

(* C8: validate_onion_url returns true exactly for http(s) URLs whose host
   is a 16- or 56-character base32 body followed by .onion. *)
C8_ValidatorMatchesFormat ==
    verdict # "pending" => (verdict = "True" <=> OnionAddressValid(in_url))

-----------------------------------------------------------------------------
(* TorCrawler.crawl_urls_from_file *)

Sp == Tok(" ", NoUrl)

Hash == Tok("#", NoUrl)

U(url) == Tok("u", url)

RECURSIVE LStrip(_, _)
LStrip(s, c) ==
    IF s # <<>> /\ Head(s) = c THEN LStrip(Tail(s), c) ELSE s

(* line.strip() *)
Strip(line) == LStrip(RStrip(line, Sp), Sp)

LineKept_Comments(line) == Strip(line) # <<>>

(* line.strip() and not line.strip().startswith('#') *)
LineKept(line) == Strip(line) # <<>> /\ Head(Strip(line)) # Hash

(* the kept line, stripped, read as a URL *)
LineUrl(line) == Head(Strip(line)).url

(* open() fails: the except clauses log and all_results is returned empty.
   Otherwise the kept lines become urls. *)
ReadFile ==
    /\ pc = "read_file"
    /\ all_results' = <<>>
    /\ requests' = <<>>
    /\ url_idx' = 1
    /\ IF file = Unreadable
       THEN urls' = <<>> /\ pc' = "file_done"
       ELSE /\ urls' = [i \in 1..Len(SelectSeq(file, LineKept)) |->
                           LineUrl(SelectSeq(file, LineKept)[i])]
            /\ pc' = "next_url"
    /\ UNCHANGED <<max_pages, web, siteVars, file, monitorVars, validateVars, extVars,
                   limiterVars>>

(* for url in urls: a valid seed starts crawl_site(url) *)
StartSite ==
    /\ pc = "next_url"
    /\ url_idx <= Len(urls)
    /\ is_valid_onion_url(urls[url_idx])
    /\ base_url' = urls[url_idx]
    /\ urls_to_visit' = <<urls[url_idx]>>
    /\ visited_urls' = {}
    /\ results' = <<>>
    /\ enqueued' = <<urls[url_idx]>>
    /\ failed' = {}
    /\ pc' = "crawl_site"
    /\ UNCHANGED <<max_pages, web, requests, fileVars, monitorVars, validateVars, extVars,
                   limiterVars>>

(* for url in urls: an invalid seed is logged and skipped *)
SkipSeed ==
    /\ pc = "next_url"
    /\ url_idx <= Len(urls)
    /\ ~is_valid_onion_url(urls[url_idx])
    /\ url_idx' = url_idx + 1
    /\ UNCHANGED <<max_pages, web, pc, requests, siteVars, file, urls, all_results,
                   monitorVars, validateVars, extVars, limiterVars>>

(* crawl_site returned: all_results.extend(site_results) *)
SiteReturn ==
    /\ pc = "site_done"
    /\ all_results' = all_results \o results
    /\ url_idx' = url_idx + 1
    /\ pc' = "next_url"
    /\ UNCHANGED <<max_pages, web, requests, siteVars, file, urls, monitorVars,
                   validateVars, extVars, limiterVars>>

(* the for loop is over: return all_results *)
FileReturn ==
    /\ pc = "next_url"
    /\ url_idx > Len(urls)
    /\ pc' = "file_done"
    /\ UNCHANGED <<max_pages, web, requests, siteVars, fileVars, monitorVars,
                   validateVars, extVars, limiterVars>>

-----------------------------------------------------------------------------
(* SpecFile: one call of crawl_urls_from_file *)

MaxLines == 2

FileLines ==
    {<<Sp>>, <<Sp, Hash, U(A0)>>, <<U(A0)>>, <<Sp, U(S0), Sp>>, <<U(C0)>>}

Files == SeqsUpTo(FileLines, MaxLines) \cup {Unreadable}

FileWeb == {S1, F0}

InitFile ==
    /\ file \in Files
    /\ urls = <<>>
    /\ url_idx = 1
    /\ all_results = <<>>
    /\ max_pages \in {1, 2}
    /\ web = FileWeb
    /\ pc = "read_file"
    /\ requests = <<>>
    /\ SiteIdle
    /\ MonitorIdle
    /\ ValidateIdle
    /\ ExtIdle
    /\ LimiterInit

NextFile ==
    \/ ReadFile
    \/ StartSite
    \/ SkipSeed
    \/ CrawlSiteIter
    \/ CrawlSiteExit
    \/ SiteReturn
    \/ FileReturn

SpecFile == InitFile /\ [][NextFile]_vars

(* C7: no URL that fails onion-address validation (scheme, .onion suffix,
   base32 body of 16 or 56 characters) is enqueued or requested. *)
C7_OnlyValidatedUrls ==
    /\ \A i \in 1..Len(requests) : OnionAddressValid(requests[i])
    /\ \A i \in 1..Len(urls_to_visit) : OnionAddressValid(urls_to_visit[i])

(* What the seed file asks for: a line of blanks only, or whose first
   character after the blanks is '#', asks for nothing *)
Ignored(line) ==
    \/ \A i \in 1..Len(line) : line[i].ch = " "
    \/ \E i \in 1..Len(line) : /\ line[i].ch = "#"
                               /\ \A j \in 1..(i - 1) : line[j].ch = " "

RECURSIVE SeedsOf(_)
SeedsOf(lines) ==
    IF lines = <<>> THEN <<>>
    ELSE IF Ignored(Head(lines)) THEN SeedsOf(Tail(lines))
    ELSE LET u == CHOOSE i \in 1..Len(Head(lines)) : Head(lines)[i].ch = "u"
         IN <<Head(lines)[u].url>> \o SeedsOf(Tail(lines))

(* C15: blank and '#' lines are ignored; an invalid seed is skipped and the
   loop goes on; seeds are traversed one after the other in file order (every
   request belongs to the traversal of the current, valid seed, and the
   position in the list only moves forward, one seed at a time); the results
   of each traversal are appended to all_results when it ends. *)
C15_SeedsInFileOrder ==
    /\ [](pc \notin {"read_file", "file_done"} => urls = SeedsOf(file))
    /\ [][/\ requests' # requests =>
                /\ pc = "crawl_site"
                /\ base_url = urls[url_idx]
                /\ is_valid_onion_url(urls[url_idx])
          /\ url_idx' # url_idx =>
                /\ url_idx' = url_idx + 1
                /\ pc' = "next_url"
                /\ IF is_valid_onion_url(urls[url_idx])
                   THEN /\ pc = "site_done"
                        /\ base_url = urls[url_idx]
                        /\ all_results' = all_results \o results
                   ELSE /\ all_results' = all_results
                        /\ requests' = requests
          /\ all_results' # all_results => url_idx' # url_idx
          /\ pc' = "file_done" /\ file # Unreadable => url_idx > Len(urls)]_vars

(* An invalid seed was skipped and the seed after it, written with blanks
   around it, was traversed and its page returned. *)
C15_Witness ==
    /\ pc = "file_done"
    /\ file = <<<<U(C0)>>, <<Sp, U(S0), Sp>>>>
    /\ urls = <<C0, S0>>
    /\ Len(all_results) > 0
    /\ all_results[1].url = S0

-----------------------------------------------------------------------------
(* DarkNext.run_continuous_monitoring *)

Interval == 2          \* the interval argument, in seconds

MaxScans == 2          \* scans the model follows

(* while self.running: scan_count += 1; run_single_scan(urls_file) *)
MonitorScan ==
    /\ pc = "monitor_loop"
    /\ running
    /\ scan_count < MaxScans
    /\ scan_count' = scan_count + 1
    /\ pc' = "read_file"
    /\ UNCHANGED <<max_pages, web, requests, siteVars, fileVars, running, ticks,
                   validateVars, extVars, limiterVars>>

(* run_single_scan handles crawl_results and returns; the wait begins *)
ScanReturn ==
    /\ pc = "file_done"
    /\ ticks' = 0
    /\ pc' = "wait"
    /\ UNCHANGED <<max_pages, web, requests, siteVars, fileVars, running,
                   scan_count, validateVars, extVars, limiterVars>>

(* for _ in range(interval): if not self.running: break; time.sleep(1) *)
WaitTick ==
    /\ pc = "wait"
    /\ ticks < Interval
    /\ running
    /\ ticks' = ticks + 1
    /\ UNCHANGED <<max_pages, web, pc, requests, siteVars, fileVars, running,
                   scan_count, validateVars, extVars, limiterVars>>

WaitEnd ==
    /\ pc = "wait"
    /\ ticks = Interval \/ ~running
    /\ pc' = "monitor_loop"
    /\ UNCHANGED <<max_pages, web, requests, siteVars, fileVars, monitorVars,
                   validateVars, extVars, limiterVars>>

(* while self.running fails: "Continuous monitoring stopped" *)
MonitorExit ==
    /\ pc = "monitor_loop"
    /\ ~running
    /\ pc' = "stopped"
    /\ UNCHANGED <<max_pages, web, requests, siteVars, fileVars, monitorVars,
                   validateVars, extVars, limiterVars>>

(* setup_signal_handlers.signal_handler: SIGINT or SIGTERM arrives *)
SignalHandler ==
    /\ pc # "stopped"
    /\ running
    /\ running' = FALSE
    /\ UNCHANGED <<max_pages, web, pc, requests, siteVars, fileVars, scan_count,
                   ticks, validateVars, extVars, limiterVars>>

InitMonitor ==
    /\ running = TRUE
    /\ scan_count = 0
    /\ ticks = 0
    /\ pc = "monitor_loop"
    /\ file \in Files
    /\ urls = <<>>
    /\ url_idx = 1
    /\ all_results = <<>>
    /\ max_pages \in {1, 2}
    /\ web = FileWeb
    /\ requests = <<>>
    /\ SiteIdle
    /\ ValidateIdle
    /\ ExtIdle
    /\ LimiterInit

NextMonitor ==
    \/ MonitorScan
    \/ ReadFile
    \/ StartSite
    \/ SkipSeed
    \/ CrawlSiteIter
    \/ CrawlSiteExit
    \/ SiteReturn
    \/ FileReturn
    \/ ScanReturn
    \/ WaitTick
    \/ WaitEnd
    \/ MonitorExit
    \/ SignalHandler

SpecMonitor == InitMonitor /\ [][NextMonitor]_vars

(* C9: once running is false no further page is requested, and the wait
   sleeps no further second. *)
C9_StopWithinOneTick ==
    [][~running =>
        /\ Len(requests') <= Len(requests)
        /\ ticks' <= ticks]_vars

-----------------------------------------------------------------------------
(* RateLimiter and the fetch client *)

(* can_make_request: the timestamps still inside the window *)
Prune(reqs, t, window) ==
    LET Inside(r) == t - r < window
    IN SelectSeq(reqs, Inside)

CanMake_Inclusive(reqs, cap) == Len(reqs) <= cap

CanMake(reqs, cap) == Len(reqs) < cap

(* make_request is a plain method: it holds no await, so under asyncio no
   other task runs between its check and its append. *)
MayRun_Preemptive(t) == TRUE

MayRun(t) == \A u \in Tasks \ {t} : task_pc[u] = "idle"

(* make_request, first half: self.can_make_request() *)
LimiterCheck(t) ==
    /\ pc = "limiter"
    /\ task_pc[t] = "idle"
    /\ MayRun(t)
    /\ consultations < MaxCalls
    /\ consultations' = consultations + 1
    /\ limiter' = Prune(limiter, now, time_window)
    /\ task_pc' = [task_pc EXCEPT ![t] =
                     IF CanMake(limiter', max_requests) THEN "append" ELSE "idle"]
    /\ UNCHANGED <<max_requests, time_window, now, admitted>>
    /\ UNCHANGED <<max_pages, web, pc, requests, siteVars, fileVars, monitorVars,
                   validateVars, extVars>>

(* make_request, second half: self.requests.append(time.time()); return True *)
LimiterAppend(t) ==
    /\ pc = "limiter"
    /\ task_pc[t] = "append"
    /\ MayRun(t)
    /\ limiter' = Append(limiter, now)
    /\ admitted' = Append(admitted, [at |-> now, by |-> t])
    /\ task_pc' = [task_pc EXCEPT ![t] = "idle"]
    /\ UNCHANGED <<max_requests, time_window, now, consultations>>
    /\ UNCHANGED <<max_pages, web, pc, requests, siteVars, fileVars, monitorVars,
                   validateVars, extVars>>

(* The clock moves on, also between the two reads of time.time() *)
ClockTick ==
    /\ pc = "limiter"
    /\ now < MaxTime
    /\ now' = now + 1
    /\ UNCHANGED <<limiter, consultations, max_requests, time_window, admitted,
                   task_pc>>
    /\ UNCHANGED <<max_pages, web, pc, requests, siteVars, fileVars, monitorVars,
                   validateVars, extVars>>

InitLimiter ==
    /\ max_requests \in {1, 2}
    /\ time_window \in {1, 2}
    /\ limiter = <<>>
    /\ consultations = 0
    /\ now = 0
    /\ admitted = <<>>
    /\ task_pc = [t \in Tasks |-> "idle"]
    /\ pc = "limiter"
    /\ max_pages = 0
    /\ web = {}
    /\ requests = <<>>
    /\ SiteIdle
    /\ FileIdle
    /\ MonitorIdle
    /\ ValidateIdle
    /\ ExtIdle

NextLimiter ==
    \/ \E t \in Tasks : LimiterCheck(t)
    \/ \E t \in Tasks : LimiterAppend(t)
    \/ ClockTick

SpecLimiter == InitLimiter /\ [][NextLimiter]_vars

(* The requests admitted in the window that ends at time t *)
AdmittedIn(t) == {i \in 1..Len(admitted) : t - admitted[i].at < time_window
                                           /\ admitted[i].at <= t}

(* C11: whatever the interleaving of the tasks, no time window holds more
   than max_requests admitted requests. *)
C11_NoOverAdmission ==
    \A t \in 0..MaxTime : Cardinality(AdmittedIn(t)) <= max_requests

(* Two tasks were admitted into one window, which is full, and a later call
   in that window was refused. *)
C11_Witness ==
    /\ max_requests = 2
    /\ Cardinality(AdmittedIn(now)) = max_requests
    /\ \E i, j \in AdmittedIn(now) : admitted[i].by # admitted[j].by
    /\ consultations > Len(admitted)
    /\ \A t \in Tasks : task_pc[t] = "idle"

-----------------------------------------------------------------------------
(* RateLimiter called by one caller *)

limiterRest ==
    <<max_pages, web, pc, requests, siteVars, fileVars, monitorVars, validateVars,
      configVars, pageVars, asyncVars, scanVars, kwVars, parseVars>>

(* The readings of time.time() a call may get after the one it started with *)
Later(t) == {u \in {t, t + 1} : u <= MaxTime}

(* min(self.requests); an empty list raises ValueError *)
Oldest(reqs) == CHOOSE r \in Range(reqs) : \A q \in Range(reqs) : r <= q

(* can_make_request(): prunes, then compares *)
CallCanMakeRequest ==
    /\ pc = "limiter"
    /\ consultations < MaxCalls
    /\ consultations' = consultations + 1
    /\ limiter' = Prune(limiter, now, time_window)
    /\ call_arg' = <<"can_make_request">>
    /\ call_ret' = <<CanMake(limiter', max_requests)>>
    /\ UNCHANGED <<max_requests, time_window, now, admitted, task_pc>>
    /\ UNCHANGED limiterRest

(* make_request(): can_make_request(), then append time.time() and return
   True, or return False *)
CallMakeRequest ==
    /\ pc = "limiter"
    /\ consultations < MaxCalls
    /\ consultations' = consultations + 1
    /\ call_arg' = <<"make_request">>
    /\ LET kept == Prune(limiter, now, time_window)
       IN IF CanMake(kept, max_requests)
          THEN \E t \in Later(now) :
                  /\ now' = t
                  /\ limiter' = Append(kept, t)
                  /\ call_ret' = <<TRUE>>
          ELSE /\ limiter' = kept
               /\ call_ret' = <<FALSE>>
               /\ UNCHANGED now
    /\ UNCHANGED <<max_requests, time_window, admitted, task_pc>>
    /\ UNCHANGED limiterRest

(* time_until_next_request(): 0.0 if a request can be made, else the time
   until the oldest timestamp leaves the window *)
CallTimeUntilNext ==
    /\ pc = "limiter"
    /\ consultations < MaxCalls
    /\ consultations' = consultations + 1
    /\ call_arg' = <<"time_until_next_request">>
    /\ LET kept == Prune(limiter, now, time_window)
       IN /\ limiter' = kept
          /\ IF CanMake(kept, max_requests)
             THEN /\ call_ret' = <<0>>
                  /\ UNCHANGED now
             ELSE IF kept = <<>>
             THEN /\ call_ret' = <<"ValueError">>
                  /\ UNCHANGED now
             ELSE \E t \in Later(now) :
                     /\ now' = t
                     /\ call_ret' = <<time_window - (t - Oldest(kept))>>
    /\ UNCHANGED <<max_requests, time_window, admitted, task_pc>>
    /\ UNCHANGED limiterRest

InitCaller ==
    /\ max_requests \in {0, 1, 2}
    /\ time_window \in {1, 2}
    /\ limiter = <<>>
    /\ consultations = 0
    /\ now = 0
    /\ admitted = <<>>
    /\ task_pc = [t \in Tasks |-> "idle"]
    /\ pc = "limiter"
    /\ max_pages = 0
    /\ web = {}
    /\ requests = <<>>
    /\ SiteIdle
    /\ FileIdle
    /\ MonitorIdle
    /\ ValidateIdle
    /\ ExtIdle

NextCaller ==
    \/ CallCanMakeRequest
    \/ CallMakeRequest
    \/ CallTimeUntilNext
    \/ ClockTick

SpecCaller == InitCaller /\ [][NextCaller]_vars

(* The recorded timestamps that lie inside the window ending at time t *)
Recent(reqs, t) == {i \in 1..Len(reqs) : t - reqs[i] < time_window}

(* C29: with one caller, after any sequence of can_make_request, make_request
   and time_until_next_request calls the recorded timestamps inside the
   current window number at most max_requests; make_request returns true
   exactly when it appended one timestamp, and records nothing when it
   returns false. *)
C29_WindowNeverOverfull ==
    /\ [](Cardinality(Recent(limiter, now)) <= max_requests)
    /\ [][call_arg' = <<"make_request">> /\ consultations' > consultations =>
            /\ call_ret' \in {<<TRUE>>, <<FALSE>>}
            /\ call_ret' = <<TRUE>> <=>
                  /\ Len(limiter') = Cardinality(Recent(limiter, now)) + 1
                  /\ limiter'[Len(limiter')] = now'
            /\ call_ret' = <<FALSE>> =>
                  /\ Len(limiter') = Cardinality(Recent(limiter, now))
                  /\ Range(limiter') \subseteq Range(limiter)]_vars

(* The window is full, and make_request has just been refused. *)
C29_Witness ==
    /\ max_requests = 2
    /\ Cardinality(Recent(limiter, now)) = 2
    /\ call_arg = <<"make_request">>
    /\ call_ret = <<FALSE>>

(* C10: every step that issues a request consults the RateLimiter and
   records the request in its timestamp window. *)
C10_FetchConsultsLimiter ==
    [][Len(requests') > Len(requests) =>
        /\ consultations' > consultations
        /\ Len(limiter') > 0]_vars

-----------------------------------------------------------------------------
(* crawl_page and crawl_page_async on one response *)

RunLens == {1, 2}

PageBodies == SeqsUpTo([unit : {"t", "w", "m"}, n : RunLens], MaxRuns)

PageAnchors == {<<>>, <<A1, C0>>}

PageResponses ==
    [kind : Failures, status : {0}, body : {<<>>}, anchors : {<<>>}]
    \cup [kind : {"response"}, status : {200, 404}, body : PageBodies,
          anchors : PageAnchors]

InitPage ==
    /\ min_length \in {1, 3}
    /\ max_length \in {2, 4}
    /\ page_url = A0
    /\ page_resp \in PageResponses
    /\ page_sync = None
    /\ page_async = None
    /\ pc = "page"
    /\ max_pages = 0
    /\ web = {}
    /\ requests = <<>>
    /\ SiteIdle
    /\ FileIdle
    /\ MonitorIdle
    /\ ValidateIdle
    /\ LimiterInit
    /\ AsyncIdle
    /\ TailIdle

(* What a call of crawl_page or crawl_page_async leaves alone *)
pageRest == <<max_pages, web, siteVars, fileVars, monitorVars, validateVars,
              limiterVars, asyncVars, tailVars>>

CrawlPageSync ==
    /\ pc \in {"page", "page_a"}
    /\ requests' = Append(requests, page_url)
    /\ page_sync' = crawl_page(page_url, page_resp)
    /\ pc' = IF pc = "page" THEN "page_s" ELSE "page_done"
    /\ UNCHANGED <<configVars, page_url, page_resp, page_async>>
    /\ UNCHANGED pageRest

CrawlPageAsync ==
    /\ pc \in {"page", "page_s"}
    /\ requests' = Append(requests, page_url)
    /\ page_async' = crawl_page_async(page_url, page_resp)
    /\ pc' = IF pc = "page" THEN "page_a" ELSE "page_done"
    /\ UNCHANGED <<configVars, page_url, page_resp, page_sync>>
    /\ UNCHANGED pageRest

NextPage == CrawlPageSync \/ CrawlPageAsync

SpecPage == InitPage /\ [][NextPage]_vars

(* The values the two fetch clients have returned so far *)
Returned ==
    (IF pc \in {"page_s", "page_done"} THEN {page_sync} ELSE {})
    \cup (IF pc \in {"page_a", "page_done"} THEN {page_async} ELSE {})

(* The normalized text of the response, cut at the size limit *)
CappedText == get_text(Take(page_resp.body, max_length))

(* C14: for one URL and one response the two clients return the same thing:
   both nothing, or results with the same fields and values, links included. *)
C14_ClientsAgree == pc = "page_done" => page_sync = page_async

(* C17: a returned result has status 200 and a normalized text of at least
   min_content_length characters; any other status or a shorter text gives
   no result. *)
C17_ResultMeetsMinimum ==
    \A out \in Returned :
        /\ out.ok => /\ out.status_code = 200
                     /\ page_resp.status = 200
                     /\ Chars(out.content) >= min_length
        /\ (page_resp.status # 200 \/ Chars(CappedText) < min_length) => ~out.ok

(* A page whose normalized text is exactly as long as the minimum was
   returned by both clients. *)
C17_Witness ==
    /\ pc = "page_done"
    /\ page_sync.ok
    /\ page_async.ok
    /\ Chars(page_sync.content) = min_length
    /\ min_length = 3

(* C18: a body longer than max_content_length is cut to the limit and not
   rejected: content_length never exceeds the limit, and the page is returned
   exactly when the text of the cut body meets the minimum. *)
C18_TruncatedNotRejected ==
    \A out \in Returned :
        /\ out.ok => out.content_length <= max_length
        /\ (page_resp.status = 200 /\ Chars(page_resp.body) > max_length) =>
              /\ out.ok <=> Chars(CappedText) >= min_length
              /\ out.ok => /\ out.content_length = max_length
                           /\ out.raw_html = Take(page_resp.body, max_length)

(* A body longer than the limit was returned by both clients, cut. *)
C18_Witness ==
    /\ pc = "page_done"
    /\ Chars(page_resp.body) > max_length
    /\ page_sync.ok
    /\ page_async.ok
    /\ page_sync.content_length = max_length
    /\ Chars(page_sync.content) < Chars(get_text(page_resp.body))

-----------------------------------------------------------------------------
(* AsyncTorCrawler.crawl_urls_async *)

MaxBatch == 3          \* URLs in one batch

ConnLimits == {1, 2}

(* aiohttp.TCPConnector(limit=...): a request gets a connection only while
   fewer than limit are in use *)
MayConnect_Always(flying, limit) == TRUE

MayConnect(flying, limit) == Cardinality(flying) < limit

(* valid_results = [r for r in results if r is not None and not
   isinstance(r, Exception)] *)
IsValid(r) == r # None

RECURSIVE UntilFailure(_)
UntilFailure(outs) ==
    IF outs = <<>> \/ ~IsValid(Head(outs)) THEN <<>>
    ELSE <<Head(outs)>> \o UntilFailure(Tail(outs))

FilterValid_UntilFailure(outs) == UntilFailure(outs)

FilterValid(outs) == SelectSeq(outs, IsValid)

asyncRest == <<max_pages, web, siteVars, fileVars, monitorVars, validateVars,
               limiterVars, configVars, pageVars, tailVars>>

InitAsync ==
    /\ batch \in SeqsUpTo({A0, A1}, MaxBatch)
    /\ conn_limit \in ConnLimits
    /\ a_pc = [i \in 1..Len(batch) |-> "sleep"]
    /\ a_out = [i \in 1..Len(batch) |-> None]
    /\ a_failed = [i \in 1..Len(batch) |-> FALSE]
    /\ in_flight = {}
    /\ valid_results = <<>>
    /\ pc = "gather"
    /\ max_pages = 0
    /\ web = {}
    /\ requests = <<>>
    /\ SiteIdle
    /\ FileIdle
    /\ MonitorIdle
    /\ ValidateIdle
    /\ LimiterInit
    /\ ConfigDefault
    /\ PageIdle
    /\ TailIdle

(* await asyncio.sleep(...) ends; session.get asks the connector for a
   connection *)
AsyncWake(i) ==
    /\ pc = "gather"
    /\ a_pc[i] = "sleep"
    /\ a_pc' = [a_pc EXCEPT ![i] = "queued"]
    /\ UNCHANGED <<batch, conn_limit, a_out, a_failed, in_flight, valid_results,
                   requests, pc>>
    /\ UNCHANGED asyncRest

(* The connector hands out a connection: the request is sent *)
AsyncConnect(i) ==
    /\ pc = "gather"
    /\ a_pc[i] = "queued"
    /\ MayConnect(in_flight, conn_limit)
    /\ in_flight' = in_flight \cup {i}
    /\ requests' = Append(requests, batch[i])
    /\ a_pc' = [a_pc EXCEPT ![i] = "fetch"]
    /\ UNCHANGED <<batch, conn_limit, a_out, a_failed, valid_results, pc>>
    /\ UNCHANGED asyncRest

(* ClientTimeout(total=...) runs out while the request still waits for a
   connection: except asyncio.TimeoutError: return None *)
AsyncTimeoutQueued(i) ==
    /\ pc = "gather"
    /\ a_pc[i] = "queued"
    /\ a_pc' = [a_pc EXCEPT ![i] = "done"]
    /\ a_out' = [a_out EXCEPT ![i] = None]
    /\ a_failed' = [a_failed EXCEPT ![i] = TRUE]
    /\ UNCHANGED <<batch, conn_limit, in_flight, valid_results, requests, pc>>
    /\ UNCHANGED asyncRest

(* The request ends (response or exception); crawl_page_async returns and
   the connection goes back to the connector *)
AsyncComplete(i) ==
    /\ pc = "gather"
    /\ a_pc[i] = "fetch"
    /\ \E resp \in Responses :
          /\ a_out' = [a_out EXCEPT ![i] = crawl_page_async(batch[i], resp)]
          /\ a_failed' = [a_failed EXCEPT ![i] =
                            \/ resp.kind # "response"
                            \/ resp.status # 200
                            \/ Chars(get_text(Take(resp.body, max_length))) < min_length]
    /\ in_flight' = in_flight \ {i}
    /\ a_pc' = [a_pc EXCEPT ![i] = "done"]
    /\ UNCHANGED <<batch, conn_limit, valid_results, requests, pc>>
    /\ UNCHANGED asyncRest

(* results = await asyncio.gather(... return_exceptions=True), then the
   filter *)
AsyncGather ==
    /\ pc = "gather"
    /\ \A i \in 1..Len(batch) : a_pc[i] = "done"
    /\ valid_results' = FilterValid(a_out)
    /\ pc' = "gather_done"
    /\ UNCHANGED <<batch, conn_limit, a_pc, a_out, a_failed, in_flight, requests>>
    /\ UNCHANGED asyncRest

NextAsync ==
    \/ \E i \in 1..Len(batch) : AsyncWake(i)
    \/ \E i \in 1..Len(batch) : AsyncConnect(i)
    \/ \E i \in 1..Len(batch) : AsyncTimeoutQueued(i)
    \/ \E i \in 1..Len(batch) : AsyncComplete(i)
    \/ AsyncGather

SpecAsync == InitAsync /\ [][NextAsync]_vars

(* The tasks whose fetch did not fail, in batch order *)
Succeeded ==
    LET Ok(i) == ~a_failed[i]
    IN SelectSeq([i \in 1..Len(batch) |-> i], Ok)

(* C12: a batch of n URLs of which k fail returns exactly n - k results, one
   per successful URL; a failure removes no sibling's result. *)
C12_FailuresExcludedOnly ==
    pc = "gather_done" =>
        /\ Len(valid_results) = Len(batch) - Cardinality({i \in 1..Len(batch) : a_failed[i]})
        /\ Len(valid_results) = Len(Succeeded)
        /\ \A j \in 1..Len(Succeeded) :
              /\ valid_results[j].ok
              /\ valid_results[j].url = batch[Succeeded[j]]

(* Three URLs, the first fails, the two after it are returned. *)
C12_Witness ==
    /\ pc = "gather_done"
    /\ Len(batch) = 3
    /\ a_failed[1]
    /\ ~a_failed[2]
    /\ ~a_failed[3]
    /\ Len(valid_results) = 2

(* C13: at every moment at most max_concurrent_requests fetches are in
   flight. *)
C13_BoundedInFlight == Cardinality(in_flight) <= conn_limit

(* The connector is full and a further request waits for a connection. *)
C13_Witness ==
    /\ conn_limit = 2
    /\ Cardinality(in_flight) = conn_limit
    /\ \E i \in 1..Len(batch) : a_pc[i] = "queued"

-----------------------------------------------------------------------------
(* DarkNext.run_single_scan *)

(* if not crawl_results *)
NoContent_Never(crawl_results) == FALSE

NoContent(crawl_results) == crawl_results = <<>>

scanRest == <<max_pages, web, requests, siteVars, fileVars, monitorVars,
              validateVars, limiterVars, configVars, pageVars, asyncVars, kwVars,
              parseVars, callVars>>

(* crawl_urls_from_file returned nothing: warning, return False *)
ScanNoContent ==
    /\ pc = "file_done"
    /\ NoContent(all_results)
    /\ scan_ret' = "False"
    /\ pc' = "scan_done"
    /\ UNCHANGED <<scan_idx, saved, alerts, findings, alerts_enabled>>
    /\ UNCHANGED scanRest

(* crawl_urls_from_file returned pages: the loop over them begins *)
ScanStart ==
    /\ pc = "file_done"
    /\ ~NoContent(all_results)
    /\ scan_idx' = 1
    /\ pc' = "process"
    /\ UNCHANGED <<saved, alerts, scan_ret, findings, alerts_enabled>>
    /\ UNCHANGED scanRest

(* AlertSystem.send_alert: nothing is sent when alerts are off or the finding
   has no matches; otherwise the result is whether a channel delivered *)
send_alert_Always(finding, delivered) == delivered

send_alert(finding, delivered) ==
    IF ~alerts_enabled \/ ~finding.has_matches THEN FALSE ELSE delivered

(* One page: parse_content, save_finding, and send_alert if the finding has
   matches. Whether the page has matches, whether the store takes the
   finding and whether an alert channel delivers are the environment's. *)
ScanPage ==
    /\ pc = "process"
    /\ scan_idx <= Len(all_results)
    /\ \E matched \in BOOLEAN, stored \in BOOLEAN, delivered \in BOOLEAN :
          LET parsed_result == [url |-> all_results[scan_idx].url,
                                page |-> scan_idx,
                                has_matches |-> matched]
          IN /\ findings' = Append(findings, parsed_result)
             /\ saved' = IF stored THEN Append(saved, parsed_result.url)
                         ELSE saved
             /\ alerts' = IF parsed_result.has_matches
                              /\ send_alert(parsed_result, delivered)
                          THEN Append(alerts, parsed_result.url)
                          ELSE alerts
    /\ scan_idx' = scan_idx + 1
    /\ UNCHANGED <<scan_ret, pc, alerts_enabled>>
    /\ UNCHANGED scanRest

(* every page handled: return True *)
ScanEnd ==
    /\ pc = "process"
    /\ scan_idx > Len(all_results)
    /\ scan_ret' = "True"
    /\ pc' = "scan_done"
    /\ UNCHANGED <<scan_idx, saved, alerts, findings, alerts_enabled>>
    /\ UNCHANGED scanRest

ScanFiles == SeqsUpTo({<<U(A0)>>, <<U(C0)>>}, MaxLines) \cup {Unreadable}

InitScan ==
    /\ file \in ScanFiles
    /\ urls = <<>>
    /\ url_idx = 1
    /\ all_results = <<>>
    /\ max_pages = 1
    /\ web = {A1}
    /\ pc = "read_file"
    /\ requests = <<>>
    /\ SiteIdle
    /\ MonitorIdle
    /\ ValidateIdle
    /\ ConfigDefault
    /\ PageIdle
    /\ AsyncIdle
    /\ scan_idx = 1
    /\ saved = <<>>
    /\ alerts = <<>>
    /\ scan_ret = "pending"
    /\ findings = <<>>
    /\ alerts_enabled \in BOOLEAN
    /\ KwIdle
    /\ ParseIdle
    /\ CallIdle
    /\ LimiterInit

NextScan ==
    \/ ReadFile
    \/ StartSite
    \/ SkipSeed
    \/ CrawlSiteIter
    \/ CrawlSiteExit
    \/ SiteReturn
    \/ FileReturn
    \/ ScanNoContent
    \/ ScanStart
    \/ ScanPage
    \/ ScanEnd

SpecScan == InitScan /\ [][NextScan]_vars

(* C16: with an unreadable seed file nothing is fetched, no result exists,
   no finding is saved, no alert is sent, and run_single_scan returns
   False. *)
C16_UnreadableFileAborts ==
    file = Unreadable =>
        /\ requests = <<>>
        /\ urls = <<>>
        /\ all_results = <<>>
        /\ saved = <<>>
        /\ alerts = <<>>
        /\ scan_ret # "True"
        /\ pc \in {"read_file", "file_done", "scan_done"}
        /\ pc = "scan_done" => scan_ret = "False"

(* C30: every crawled page is parsed and passed to save_finding exactly once,
   whether or not it has matches, and an alert is sent only for a finding
   whose has_matches is true and only when alerts are enabled. *)
C30_EveryPageSavedOnce ==
    /\ pc \in {"process", "scan_done"} =>
          /\ Len(findings) = scan_idx - 1
          /\ \A i \in 1..Len(findings) :
                /\ findings[i].page = i
                /\ findings[i].url = all_results[i].url
    /\ pc = "scan_done" /\ scan_ret = "True" => Len(findings) = Len(all_results)
    /\ \A a \in 1..Len(alerts) :
          /\ alerts_enabled
          /\ \E i \in 1..Len(findings) :
                findings[i].url = alerts[a] /\ findings[i].has_matches
    /\ Len(alerts) <= Len(SelectSeq(findings, LAMBDA f : f.has_matches))

(* A scan of two pages ended: one finding without matches, one with matches
   that was alerted; both went to save_finding. *)
C30_Witness ==
    /\ pc = "scan_done"
    /\ scan_ret = "True"
    /\ Len(findings) = 2
    /\ ~findings[1].has_matches
    /\ findings[2].has_matches
    /\ Len(alerts) = 1

(* The scan of an unreadable file has returned. *)
C16_Witness ==
    /\ file = Unreadable
    /\ pc = "scan_done"
    /\ scan_ret = "False"

-----------------------------------------------------------------------------
(* ContentParser._find_keyword_matches *)

MaxText == 4           \* characters of page text

(* str.lower() on one character *)
LowerChar(c) ==
    IF \E k \in 1..Len(UpperOf) : UpperOf[k] = c
    THEN Lower[CHOOSE k \in 1..Len(UpperOf) : UpperOf[k] = c]
    ELSE c

ToLower(s) == [i \in 1..Len(s) |-> LowerChar(s[i])]

(* \w of the re module *)
IsWord(c) ==
    \/ \E k \in 1..Len(Lower) : c = Lower[k] \/ c = UpperOf[k]
    \/ c \in {"_", "0", "1", "2", "3", "4", "5", "6", "7", "8", "9"}

WordAt(text, i) == i \in 1..Len(text) /\ IsWord(text[i])

(* \b at the gap before text[p]: a word character on exactly one side *)
Boundary(text, p) == WordAt(text, p - 1) # WordAt(text, p)

(* the pattern \b + re.escape(keyword) + \b, with re.IGNORECASE, at p *)
MatchAt(text, keyword, p) ==
    /\ p + Len(keyword) - 1 <= Len(text)
    /\ Boundary(text, p)
    /\ ToLower(SubSeq(text, p, p + Len(keyword) - 1)) = ToLower(keyword)
    /\ Boundary(text, p + Len(keyword))

(* re.finditer: the offsets of the matches, leftmost first, each search
   resuming where the previous match ended *)
RECURSIVE FindIter(_, _, _)
FindIter(text, keyword, p) ==
    IF p > Len(text) THEN <<>>
    ELSE IF MatchAt(text, keyword, p)
         THEN <<p - 1>> \o FindIter(text, keyword, p + Len(keyword))
         ELSE FindIter(text, keyword, p + 1)

(* the entries one turn of the keyword loop appends *)
MatchesFor(text, keyword) ==
    LET offsets == FindIter(text, keyword, 1)
    IN [i \in 1..Len(offsets) |-> [keyword |-> keyword, position |-> offsets[i]]]

kwRest == <<max_pages, web, requests, siteVars, fileVars, monitorVars,
            validateVars, limiterVars, configVars, pageVars, asyncVars, scanVars,
            parseVars, callVars>>

(* for keyword in self.keywords: one turn of the loop, on content.lower() *)
FindKeywordMatches(keyword) ==
    /\ pc = "keywords"
    /\ keyword \in keywords \ scanned
    /\ keyword_matches' = keyword_matches \o MatchesFor(ToLower(page_content), keyword)
    /\ scanned' = scanned \cup {keyword}
    /\ UNCHANGED <<page_content, keywords, pc>>
    /\ UNCHANGED kwRest

(* return matches *)
KeywordsReturn ==
    /\ pc = "keywords"
    /\ scanned = keywords
    /\ pc' = "keywords_done"
    /\ UNCHANGED <<page_content, keywords, scanned, keyword_matches>>
    /\ UNCHANGED kwRest

TextChars == {"a", "A", "+", " "}

KeywordPool == {<<"a">>, <<"a", "+">>, <<"a", " ", "a">>}

InitKeywords ==
    /\ page_content \in SeqsUpTo(TextChars, MaxText)
    /\ keywords \in SUBSET KeywordPool \ {{}}
    /\ scanned = {}
    /\ keyword_matches = <<>>
    /\ pc = "keywords"
    /\ max_pages = 0
    /\ web = {}
    /\ requests = <<>>
    /\ SiteIdle
    /\ FileIdle
    /\ MonitorIdle
    /\ ValidateIdle
    /\ LimiterInit
    /\ ConfigDefault
    /\ PageIdle
    /\ AsyncIdle
    /\ ScanIdle
    /\ ParseIdle
    /\ CallIdle

NextKeywords ==
    \/ \E keyword \in KeywordPool : FindKeywordMatches(keyword)
    \/ KeywordsReturn

SpecKeywords == InitKeywords /\ [][NextKeywords]_vars

(* The keyword stands at this offset of the text, whatever the case, with no
   word character right before or right after it *)
Occurrence(keyword, offset) ==
    /\ offset + Len(keyword) <= Len(page_content)
    /\ ToLower(SubSeq(page_content, offset + 1, offset + Len(keyword))) = keyword
    /\ ~WordAt(page_content, offset)
    /\ ~WordAt(page_content, offset + Len(keyword) + 1)

(* C19: the matches hold exactly one entry per keyword and offset at which
   the keyword occurs (case-insensitively, not preceded and not followed by a
   word character), and no other entry. *)
C19_OneMatchPerOccurrence ==
    pc = "keywords_done" =>
        \A keyword \in keywords : \A offset \in 0..Len(page_content) :
            Cardinality({i \in 1..Len(keyword_matches) :
                            keyword_matches[i] = [keyword |-> keyword,
                                                  position |-> offset]})
            = IF Occurrence(keyword, offset) THEN 1 ELSE 0

-----------------------------------------------------------------------------
(* ContentParser.parse_content and _extract_entities *)

MaxFound == 2          \* matches one pattern family finds in a page

RECURSIVE Dedup(_)
Dedup(xs) ==
    IF xs = <<>> THEN <<>>
    ELSE LET front == Dedup(SubSeq(xs, 1, Len(xs) - 1))
         IN IF xs[Len(xs)] \in Range(front) THEN front
            ELSE Append(front, xs[Len(xs)])

Reverse(xs) == [i \in 1..Len(xs) |-> xs[Len(xs) + 1 - i]]

(* list(set(xs)): each value once, in the order the set happens to yield;
   over two distinct values these are both orders *)
ListOfSet(xs, swapped) == IF swapped THEN Reverse(Dedup(xs)) ELSE Dedup(xs)

(* _is_valid_cc_format: blanks and hyphens removed, digits only, 13 to 19 *)
Digits == {"0", "1", "2", "3", "4", "5", "6", "7", "8", "9"}

is_valid_cc_format_AnyLength(cc) ==
    LET cc_clean == Remove(Remove(cc, <<"-">>), <<" ">>)
    IN /\ cc_clean # <<>>
       /\ \A i \in 1..Len(cc_clean) : cc_clean[i] \in Digits

is_valid_cc_format(cc) ==
    LET cc_clean == Remove(Remove(cc, <<"-">>), <<" ">>)
    IN /\ cc_clean # <<>>
       /\ \A i \in 1..Len(cc_clean) : cc_clean[i] \in Digits
       /\ 13 <= Len(cc_clean)
       /\ Len(cc_clean) <= 19

(* str.split(sep): the pieces between the separators *)
RECURSIVE Split(_, _)
Split(s, sep) ==
    IF \A i \in 1..Len(s) : s[i] # sep THEN <<s>>
    ELSE LET at == CHOOSE i \in 1..Len(s) :
                       s[i] = sep /\ \A j \in 1..(i - 1) : s[j] # sep
         IN <<SubSeq(s, 1, at - 1)>> \o Split(SubSeq(s, at + 1, Len(s)), sep)

(* sep.join(parts) *)
RECURSIVE Join(_, _)
Join(parts, sep) ==
    IF parts = <<>> THEN <<>>
    ELSE IF Len(parts) = 1 THEN Head(parts)
    ELSE Head(parts) \o <<sep>> \o Join(Tail(parts), sep)

DigitChars == <<"0", "1", "2", "3", "4", "5", "6", "7", "8", "9">>

DigitVal(ch) == (CHOOSE n \in 1..Len(DigitChars) : DigitChars[n] = ch) - 1

RECURSIVE Value(_)
Value(ds) ==
    IF ds = <<>> THEN 0
    ELSE Value(SubSeq(ds, 1, Len(ds) - 1)) * 10 + DigitVal(ds[Len(ds)])

(* int(part): an optional sign and one or more digits; anything else raises
   ValueError *)
ParseInt(part) ==
    LET signed == part # <<>> /\ Head(part) \in {"-", "+"}
        ds == IF signed THEN Tail(part) ELSE part
    IN IF ds = <<>> \/ \E i \in 1..Len(ds) : ds[i] \notin Digits
       THEN [ok |-> FALSE, num |-> 0]
       ELSE [ok |-> TRUE,
             num |-> IF signed /\ Head(part) = "-" THEN 0 - Value(ds) ELSE Value(ds)]

is_valid_ip_AnyNumber(ip) ==
    LET parts == Split(ip, ".")
    IN /\ Len(parts) = 4
       /\ \A i \in 1..Len(parts) : ParseInt(parts[i]).ok

(* _is_valid_ip: four parts, each an int from 0 to 255 *)
is_valid_ip(ip) ==
    LET parts == Split(ip, ".")
    IN /\ Len(parts) = 4
       /\ \A i \in 1..Len(parts) :
             /\ ParseInt(parts[i]).ok
             /\ 0 <= ParseInt(parts[i]).num
             /\ ParseInt(parts[i]).num <= 255

(* entities = {k: v for k, v in entities.items() if v} *)
RemoveEmpty_Keep(ents) == ents

RemoveEmpty(ents) == [k \in {j \in DOMAIN ents : ents[j] # <<>>} |-> ents[k]]

(* _extract_entities on the matches the patterns found; swapped are the
   kinds whose set comes out in the other order *)
ExtractEntities(matches, swapped) ==
    RemoveEmpty([k \in Kinds |->
        IF k = "credit_cards" THEN SelectSeq(matches[k], is_valid_cc_format)
        ELSE IF k = "ip_addresses" THEN SelectSeq(matches[k], is_valid_ip)
        ELSE ListOfSet(matches[k], k \in swapped)])

(* for keyword in self.keywords, in the order the set yields them *)
KeywordOrders(kws) ==
    {o \in [1..Cardinality(kws) -> kws] :
        \A i, j \in 1..Cardinality(kws) : i # j => o[i] # o[j]}

RECURSIVE MatchesInOrder(_, _)
MatchesInOrder(text, order) ==
    IF order = <<>> THEN <<>>
    ELSE MatchesFor(text, Head(order)) \o MatchesInOrder(text, Tail(order))

(* any(entities.values()) *)
AnyValue_Never(ents) == FALSE

AnyValue(ents) == \E k \in DOMAIN ents : ents[k] # <<>>

parseRest == <<max_pages, web, requests, siteVars, fileVars, monitorVars,
               validateVars, limiterVars, configVars, pageVars, asyncVars, scanVars,
               callVars>>

(* parse_content(page_data) *)
ParseContent ==
    /\ pc = "parse"
    /\ \E order \in KeywordOrders(keywords) :
          keyword_matches' = MatchesInOrder(ToLower(page_content), order)
    /\ IF extract_entities
       THEN \E swapped \in SUBSET {k \in Kinds : Cardinality(Range(found[k])) > 1} :
               entities' = ExtractEntities(found, swapped)
       ELSE entities' = EmptyMap
    /\ has_matches' = (Len(keyword_matches') > 0 \/ AnyValue(entities'))
    /\ scanned' = keywords
    /\ pc' = "parsed"
    /\ UNCHANGED <<page_content, keywords, found, extract_entities>>
    /\ UNCHANGED parseRest

(* What the patterns can find: two values per kind, credit-card candidates
   as the pattern shapes them (four groups of four digits), IP candidates
   with one to three digits per part *)
CardPlain == Rep("4", 16)

CardDashed ==
    Rep("4", 4) \o <<"-">> \o Rep("1", 4) \o <<"-">> \o Rep("1", 4) \o <<"-">>
    \o Rep("1", 4)

Pool(kind) ==
    IF kind = "credit_cards" THEN {CardPlain, CardDashed}
    ELSE IF kind = "ip_addresses"
         THEN {Join(<<<<"1", "0">>, <<"0">>, <<"0">>, <<"1">>>>, "."),
               Join(<<<<"9", "9", "9">>, <<"0">>, <<"0">>, <<"1">>>>, ".")}
    ELSE IF kind = "emails" THEN {"a@b.com", "c@d.org"}
    ELSE {"x1", "x2"}

FoundInputs ==
    UNION {{[k \in Kinds |-> IF k = k1 THEN l1
                             ELSE IF k = "ip_addresses" THEN l2
                             ELSE <<>>] :
               l1 \in SeqsUpTo(Pool(k1), MaxFound),
               l2 \in SeqsUpTo(Pool("ip_addresses"), MaxFound)} : k1 \in Kinds}

ParseTexts == {<<>>, <<"a", "+">>, <<"A", " ", "a">>}

InitParse ==
    /\ page_content \in ParseTexts
    /\ keywords \in {{}, {<<"a">>}}
    /\ scanned = {}
    /\ keyword_matches = <<>>
    /\ found \in FoundInputs
    /\ extract_entities \in BOOLEAN
    /\ entities = EmptyMap
    /\ has_matches = FALSE
    /\ pc = "parse"
    /\ max_pages = 0
    /\ web = {}
    /\ requests = <<>>
    /\ SiteIdle
    /\ FileIdle
    /\ MonitorIdle
    /\ ValidateIdle
    /\ LimiterInit
    /\ ConfigDefault
    /\ PageIdle
    /\ AsyncIdle
    /\ ScanIdle
    /\ CallIdle

NextParse == ParseContent

SpecParse == InitParse /\ [][NextParse]_vars

(* C20: the entities map of a finding has no kind with an empty collection,
   whether extract_entities is on (kinds without a value are removed) or off
   (the map is empty). *)
C20_NoEmptyKind ==
    pc = "parsed" =>
        /\ \A k \in DOMAIN entities : entities[k] # <<>>
        /\ ~extract_entities => DOMAIN entities = {}

(* The IP pattern found only candidates that are no IP addresses: the kind
   is left out, next to another kind that has a value. *)
C20_Witness ==
    /\ pc = "parsed"
    /\ extract_entities
    /\ found["ip_addresses"] # <<>>
    /\ "ip_addresses" \notin DOMAIN entities
    /\ "emails" \in DOMAIN entities

(* C24: has_matches is true exactly when there is a keyword match or an
   entity kind with a value. *)
C24_HasMatchesIff ==
    pc = "parsed" =>
        has_matches <=>
            \/ Len(keyword_matches) >= 1
            \/ \E k \in Kinds : k \in DOMAIN entities /\ Len(entities[k]) >= 1

(* No keyword matched, an email was found: the finding has matches. *)
C24_Witness ==
    /\ pc = "parsed"
    /\ keyword_matches = <<>>
    /\ DOMAIN entities = {"emails"}
    /\ has_matches

(* C21: in every kind of the entities map each value appears at most once,
   however often the patterns found it. *)
C21_ValuesOnce ==
    pc = "parsed" =>
        \A k \in DOMAIN entities :
            \A i, j \in 1..Len(entities[k]) :
                entities[k][i] = entities[k][j] => i = j

-----------------------------------------------------------------------------
(* ContentParser._is_valid_cc_format on one candidate *)

callRest == <<max_pages, web, requests, siteVars, fileVars, monitorVars,
              validateVars, limiterVars, configVars, pageVars, asyncVars, scanVars,
              kwVars, parseVars>>

(* Candidates: n characters, digits but for the k-th (if any), which is c,
   written in groups of g with sep between the groups *)
RECURSIVE Grouped(_, _, _)
Grouped(chars, g, sep) ==
    IF Len(chars) <= g THEN chars
    ELSE SubSeq(chars, 1, g) \o sep \o Grouped(SubSeq(chars, g + 1, Len(chars)), g, sep)

Card(n, k, c, g, sep) == Grouped([i \in 1..n |-> IF i = k THEN c ELSE "4"], g, sep)

CardLens == {0, 6, 12, 13, 16, 19, 20}

CardInputs ==
    {Card(n, k, c, g, sep) : n \in CardLens, k \in {0, 1, 13}, c \in {"x", "."},
                             g \in {3, 4}, sep \in {<<>>, <<"-">>, <<" ">>}}

InitCard ==
    /\ call_arg \in CardInputs
    /\ call_ret = <<>>
    /\ pc = "card"
    /\ max_pages = 0
    /\ web = {}
    /\ requests = <<>>
    /\ SiteIdle
    /\ FileIdle
    /\ MonitorIdle
    /\ ValidateIdle
    /\ LimiterInit
    /\ ConfigDefault
    /\ PageIdle
    /\ AsyncIdle
    /\ ScanIdle
    /\ KwIdle
    /\ ParseIdle

(* [cc for cc in cc_matches if self._is_valid_cc_format(cc)] on one candidate *)
ValidateCard ==
    /\ pc = "card"
    /\ call_ret' = SelectSeq(<<call_arg>>, is_valid_cc_format)
    /\ pc' = "card_done"
    /\ UNCHANGED call_arg
    /\ UNCHANGED callRest

NextCard == ValidateCard

SpecCard == InitCard /\ [][NextCard]_vars

(* The candidate without its blanks and hyphens *)
CardBody ==
    LET NotSeparator(ch) == ch \notin {"-", " "}
    IN SelectSeq(call_arg, NotSeparator)

(* C22: a credit-card candidate is kept exactly when, blanks and hyphens
   removed, it is digits only and 13 to 19 long. *)
C22_CardKept ==
    pc = "card_done" =>
        (call_ret = <<call_arg>>) <=>
            /\ \A i \in 1..Len(CardBody) : CardBody[i] \in Digits
            /\ Len(CardBody) >= 13
            /\ Len(CardBody) <= 19

(* Four groups of four digits with hyphens between them were accepted. *)
C22_Witness ==
    /\ pc = "card_done"
    /\ call_arg = Card(16, 0, "x", 4, <<"-">>)
    /\ Len(call_arg) = 19
    /\ call_ret = <<call_arg>>

-----------------------------------------------------------------------------
(* ContentParser._is_valid_ip on one candidate *)

IpParts ==
    {<<"1">>, <<"1", "9", "2">>, <<"2", "5", "5">>, <<"2", "5", "6">>,
     <<"9", "9", "9">>, <<>>, <<"x">>, <<"-", "1">>}

IpInputs ==
    {Join(parts, ".") : parts \in UNION {[1..n -> IpParts] : n \in {3, 4, 5}}}

InitIp ==
    /\ call_arg \in IpInputs
    /\ call_ret = <<>>
    /\ pc = "ip"
    /\ max_pages = 0
    /\ web = {}
    /\ requests = <<>>
    /\ SiteIdle
    /\ FileIdle
    /\ MonitorIdle
    /\ ValidateIdle
    /\ LimiterInit
    /\ ConfigDefault
    /\ PageIdle
    /\ AsyncIdle
    /\ ScanIdle
    /\ KwIdle
    /\ ParseIdle

(* [ip for ip in ip_matches if self._is_valid_ip(ip)] on one candidate *)
ValidateIp ==
    /\ pc = "ip"
    /\ call_ret' = SelectSeq(<<call_arg>>, is_valid_ip)
    /\ pc' = "ip_done"
    /\ UNCHANGED call_arg
    /\ UNCHANGED callRest

NextIp == ValidateIp

SpecIp == InitIp /\ [][NextIp]_vars

(* The groups among IpParts that are the decimal form of 0..255 *)
ByteGroups == {<<"1">>, <<"1", "9", "2">>, <<"2", "5", "5">>}

(* C23: an IP candidate is kept exactly when it has four dot-separated
   groups and each is an integer from 0 to 255. *)
C23_IpKept ==
    pc = "ip_done" =>
        (call_ret = <<call_arg>>) <=>
            \E g \in [1..4 -> ByteGroups] : call_arg = Join(g, ".")

(* 192.255.1.1 was kept. *)
C23_Witness ==
    /\ pc = "ip_done"
    /\ call_arg = Join(<<<<"1", "9", "2">>, <<"2", "5", "5">>, <<"1">>, <<"1">>>>, ".")
    /\ call_ret = <<call_arg>>

-----------------------------------------------------------------------------
(* ContentParser._create_snippet *)

(* Default of the max_length parameter *)
snippet_max_length == 500

Max(a, b) == IF a >= b THEN a ELSE b

Min(a, b) == IF a <= b THEN a ELSE b

(* content[k:] on a text given as runs *)
RECURSIVE Drop(_, _)
Drop(text, k) ==
    IF text = <<>> \/ k <= 0 THEN text
    ELSE IF Head(text).n <= k THEN Drop(Tail(text), k - Head(text).n)
    ELSE <<Run(Head(text).unit, Head(text).n - k)>> \o Tail(text)

(* content[a:b] *)
Window(text, a, b) == Take(Drop(text, a), b - a)

Ellipsis == <<Run(".", 3)>>

IsBlank(run) == run.unit = " "

RECURSIVE LStripRuns(_)
LStripRuns(text) ==
    IF text # <<>> /\ IsBlank(Head(text)) THEN LStripRuns(Tail(text)) ELSE text

RECURSIVE RStripRuns(_)
RStripRuns(text) ==
    IF text # <<>> /\ IsBlank(text[Len(text)])
    THEN RStripRuns(SubSeq(text, 1, Len(text) - 1))
    ELSE text

(* str.strip() *)
StripRuns(text) == LStripRuns(RStripRuns(text))

(* max_length // 2 *)
Half_Whole(n) == n

Half(n) == n \div 2

create_snippet(text, matches, max_len) ==
    IF matches = <<>>
    THEN Take(text, max_len) \o (IF Chars(text) > max_len THEN Ellipsis ELSE <<>>)
    ELSE LET position == matches[1].position
             start == Max(0, position - Half(max_len))
             end == Min(Chars(text), start + max_len)
         IN StripRuns((IF start > 0 THEN Ellipsis ELSE <<>>)
                      \o Window(text, start, end)
                      \o (IF end < Chars(text) THEN Ellipsis ELSE <<>>))

(* Page texts: two pieces of text with one blank between them, or one piece,
   or nothing; lengths on both sides of the window sizes *)
PieceLens == {1, 249, 250, 251, 499, 500, 501}

SnippetTexts ==
    {<<>>}
    \cup {<<Run("t", a)>> : a \in PieceLens}
    \cup {<<Run("t", a), Run(" ", 1), Run("t", b)>> : a, b \in PieceLens}

(* unit of the character at an offset *)
RECURSIVE UnitAt(_, _)
UnitAt(text, offset) ==
    IF text = <<>> THEN "none"
    ELSE IF offset < Head(text).n THEN Head(text).unit
    ELSE UnitAt(Tail(text), offset - Head(text).n)

SnippetOffsets == {0, 1, 249, 250, 251, 500, 600}

Match(offset) == [keyword |-> <<"a">>, position |-> offset]

SnippetInputs ==
    {[content |-> text, keyword_matches |-> ms] :
        text \in SnippetTexts,
        ms \in {<<>>} \cup {<<Match(o)>> : o \in SnippetOffsets}
                     \cup {<<Match(o), Match(0)>> : o \in SnippetOffsets}}

InitSnippet ==
    /\ call_arg \in {a \in SnippetInputs :
                        \A i \in 1..Len(a.keyword_matches) :
                            UnitAt(a.content, a.keyword_matches[i].position) = "t"}
    /\ call_ret = <<>>
    /\ pc = "snippet"
    /\ max_pages = 0
    /\ web = {}
    /\ requests = <<>>
    /\ SiteIdle
    /\ FileIdle
    /\ MonitorIdle
    /\ ValidateIdle
    /\ LimiterInit
    /\ ConfigDefault
    /\ PageIdle
    /\ AsyncIdle
    /\ ScanIdle
    /\ KwIdle
    /\ ParseIdle

(* self._create_snippet(page_data.get('content', ''), keyword_matches) *)
CreateSnippet ==
    /\ pc = "snippet"
    /\ call_ret' = create_snippet(call_arg.content, call_arg.keyword_matches,
                                  snippet_max_length)
    /\ pc' = "snippet_done"
    /\ UNCHANGED call_arg
    /\ UNCHANGED callRest

NextSnippet == CreateSnippet

SpecSnippet == InitSnippet /\ [][NextSnippet]_vars

(* The snippet that shows the characters from offset a up to b of the text,
   with an ellipsis on each side where the text goes on *)
Showing(text, a, b) ==
    (IF a > 0 THEN Ellipsis ELSE <<>>)
    \o Window(text, a, b)
    \o (IF b < Chars(text) THEN Ellipsis ELSE <<>>)

(* C25: with a keyword match the snippet shows a window of at most 500
   characters that starts 250 characters before the first match (or at the
   start of the text) and contains the match's offset; without a match it
   shows the leading 500 characters; an ellipsis stands on exactly the sides
   where text was cut off. *)
C25_SnippetWindow ==
    pc = "snippet_done" =>
        LET text == call_arg.content
            ms == call_arg.keyword_matches
        IN IF ms = <<>>
           THEN call_ret = Showing(text, 0, Min(500, Chars(text)))
           ELSE LET first == ms[1].position
                    from == IF first >= 250 THEN first - 250 ELSE 0
                IN \E to \in (first + 1)..(from + 500) :
                      /\ to <= Chars(text)
                      /\ call_ret = Showing(text, from, to)

(* The first match lies deep in a long text: the snippet is cut, and marked,
   on both sides. *)
C25_Witness ==
    /\ pc = "snippet_done"
    /\ call_arg.keyword_matches # <<>>
    /\ call_arg.keyword_matches[1].position = 251
    /\ Chars(call_arg.content) > 751
    /\ Head(call_ret) = Run(".", 3)
    /\ call_ret[Len(call_ret)] = Run(".", 3)
    /\ Chars(call_ret) = 506

-----------------------------------------------------------------------------
(* ContentParser.get_statistics *)

MaxResults == 2

(* d[key] = d.get(key, 0) + by *)
Bump(d, key, by) ==
    [x \in DOMAIN d \cup {key} |->
        (IF x \in DOMAIN d THEN d[x] ELSE 0) + (IF x = key THEN by ELSE 0)]

(* for match in result['keyword_matches']: keyword_frequency[keyword] += 1 *)
RECURSIVE CountKeywords(_, _)
CountKeywords(matches, freq) ==
    IF matches = <<>> THEN freq
    ELSE CountKeywords(Tail(matches), Bump(freq, Head(matches).keyword, 1))

RECURSIVE KeywordFrequency(_, _)
KeywordFrequency(parsed_results, freq) ==
    IF parsed_results = <<>> THEN freq
    ELSE KeywordFrequency(Tail(parsed_results),
                          CountKeywords(Head(parsed_results).keyword_matches, freq))

(* for entity_type, entities in result['entities'].items():
       entity_counts[entity_type] += len(entities) *)
RECURSIVE CountKinds(_, _, _)
CountKinds(ents, kinds, counts) ==
    IF kinds = {} THEN counts
    ELSE LET entity_type == CHOOSE k \in kinds : TRUE
         IN CountKinds(ents, kinds \ {entity_type},
                       Bump(counts, entity_type, Len(ents[entity_type])))

RECURSIVE EntityCounts(_, _)
EntityCounts(parsed_results, counts) ==
    IF parsed_results = <<>> THEN counts
    ELSE EntityCounts(Tail(parsed_results),
                      CountKinds(Head(parsed_results).entities,
                                 DOMAIN Head(parsed_results).entities, counts))

(* the characters of an entity kind's name *)
KindText(kind) ==
    IF kind = "emails" THEN <<"e", "m", "a", "i", "l", "s">>
    ELSE IF kind = "urls" THEN <<"u", "r", "l", "s">>
    ELSE <<"i", "p", "_", "a", "d", "d", "r", "e", "s", "s", "e", "s">>

FormatEntity_ValueOnly(entity_type, entity) == entity

(* f"{entity_type}:{entity}" *)
FormatEntity(entity_type, entity) == KindText(entity_type) \o <<":">> \o entity

(* the set the formatted entities are added to *)
UniqueEntities(parsed_results) ==
    UNION {UNION {{FormatEntity(k, parsed_results[i].entities[k][j]) :
                      j \in 1..Len(parsed_results[i].entities[k])} :
                  k \in DOMAIN parsed_results[i].entities} :
           i \in 1..Len(parsed_results)}

(* sum(len(r['keyword_matches']) for r in parsed_results) counts these *)
RECURSIVE AllMatches(_)
AllMatches(parsed_results) ==
    IF parsed_results = <<>> THEN <<>>
    ELSE Head(parsed_results).keyword_matches \o AllMatches(Tail(parsed_results))

get_statistics(parsed_results) ==
    [total_pages |-> Len(parsed_results),
     pages_with_matches |->
        Len(SelectSeq(parsed_results, LAMBDA r : r.has_matches)),
     total_keyword_matches |->
        Len(AllMatches(parsed_results)),
     keyword_frequency |-> KeywordFrequency(parsed_results, EmptyMap),
     entity_counts |-> EntityCounts(parsed_results, EmptyMap),
     unique_entities |-> Cardinality(UniqueEntities(parsed_results))]

(* Findings given to get_statistics: keyword matches of two keywords, and
   entities of two kinds whose values overlap and may repeat *)
StatKinds == {"emails", "ip_addresses"}

StatValues == {<<"a">>, <<":", "a">>}

StatMatches ==
    {<<>>, <<Match(0)>>, <<Match(0), Match(1)>>,
     <<Match(0), [keyword |-> <<"b">>, position |-> 2]>>}

StatLists == {<<<<"a">>>>, <<<<"a">>, <<"a">>>>, <<<<"a">>, <<":", "a">>>>}

StatEntities == UNION {[ks -> StatLists] : ks \in SUBSET StatKinds}

StatFindings ==
    {[keyword_matches |-> ms, entities |-> es,
      has_matches |-> (ms # <<>> \/ DOMAIN es # {})] :
        ms \in StatMatches, es \in StatEntities}

InitStats ==
    /\ call_arg \in SeqsUpTo(StatFindings, MaxResults)
    /\ call_ret = <<>>
    /\ pc = "stats"
    /\ max_pages = 0
    /\ web = {}
    /\ requests = <<>>
    /\ SiteIdle
    /\ FileIdle
    /\ MonitorIdle
    /\ ValidateIdle
    /\ LimiterInit
    /\ ConfigDefault
    /\ PageIdle
    /\ AsyncIdle
    /\ ScanIdle
    /\ KwIdle
    /\ ParseIdle

(* stats = parser.get_statistics(parsed_results) *)
GetStatistics ==
    /\ pc = "stats"
    /\ call_ret' = get_statistics(call_arg)
    /\ pc' = "stats_done"
    /\ UNCHANGED call_arg
    /\ UNCHANGED callRest

NextStats == GetStatistics

SpecStats == InitStats /\ [][NextStats]_vars

(* the (finding, index) places of the keyword matches with keyword kw *)
MatchPlaces(parsed_results, kw) ==
    {<<i, j>> \in (1..Len(parsed_results)) \X (1..2) :
        /\ j <= Len(parsed_results[i].keyword_matches)
        /\ parsed_results[i].keyword_matches[j].keyword = kw}

(* the (finding, index) places of the values of one kind *)
ValuePlaces(parsed_results, kind) ==
    {<<i, j>> \in (1..Len(parsed_results)) \X (1..2) :
        /\ kind \in DOMAIN parsed_results[i].entities
        /\ j <= Len(parsed_results[i].entities[kind])}

KindValuePairs(parsed_results) ==
    {<<kind, v>> \in StatKinds \X StatValues :
        \E p \in ValuePlaces(parsed_results, kind) : parsed_results[p[1]].entities[kind][p[2]] = v}

Tally(d, key) == IF key \in DOMAIN d THEN d[key] ELSE 0

(* C26: get_statistics is a pure tally: keyword_frequency[k] is the number of
   keyword-match records with keyword k over all findings, entity_counts[kind]
   the total number of values of that kind, unique_entities the number of
   distinct (kind, value) pairs; the findings passed in are left as they
   were. *)
C26_Tally ==
    /\ [](pc = "stats_done" =>
            /\ \A kw \in {<<"a">>, <<"b">>} :
                  /\ Tally(call_ret.keyword_frequency, kw)
                        = Cardinality(MatchPlaces(call_arg, kw))
                  /\ kw \in DOMAIN call_ret.keyword_frequency
                        <=> MatchPlaces(call_arg, kw) # {}
            /\ DOMAIN call_ret.keyword_frequency \subseteq {<<"a">>, <<"b">>}
            /\ \A kind \in Kinds :
                  Tally(call_ret.entity_counts, kind)
                      = Cardinality(ValuePlaces(call_arg, kind))
            /\ DOMAIN call_ret.entity_counts \subseteq Kinds
            /\ call_ret.unique_entities = Cardinality(KindValuePairs(call_arg)))
    /\ [][call_arg' = call_arg]_vars

(* Two findings with the same value under both kinds and a repeated value:
   five values, three distinct pairs. *)
C26_Witness ==
    /\ pc = "stats_done"
    /\ Len(call_arg) = 2
    /\ call_ret.entity_counts = [k \in StatKinds |->
                                    IF k = "emails" THEN 3 ELSE 2]
    /\ call_ret.unique_entities = 3
    /\ call_ret.keyword_frequency = (<<"a">> :> 3 @@ <<"b">> :> 1)

====
